---- MODULE Spec2Model ----
(***************************************************************************)
(* A model of the fee-eslint initialiser: the answer-to-configuration       *)
(* synthesis and module list of lib/index.js, the npm installer of          *)
(* lib/npm-utils.js, the severity normaliser of lib/config-ops.js and the   *)
(* WebStorm watcher generator (class Watch, lib/ide/ws/Watcher).            *)
(*                                                                         *)
(* Strings.  A JavaScript string is modelled as the sequence of its         *)
(* fragments; concatenation is \o.  The fragments are cut so that the       *)
(* substrings the code searches for ("eslint:", "plugin:", "/", "!", " ")   *)
(* only ever occur as whole fragments, so indexOf, slice, trim, split and   *)
(* the trailing-slash loop are computed on the sequence as the code         *)
(* computes them on the characters.                                         *)
(*                                                                         *)
(* Objects.  A JavaScript object used as an ordered map (modules, typeObj,  *)
(* rules) is a sequence of entries with distinct keys, in insertion order.  *)
(***************************************************************************)
EXTENDS Integers, Sequences, FiniteSets, TLC

VARIABLES
    pc,            \* position of main's promise chain
    answers,       \* the answers of the first prompt
    configs,       \* processAnswers' result: eslintConfig, prettierConfig
    modules,       \* getModulesList's result
    trace,         \* the stages main has gone through, in order
    logs,          \* calls of log.info / log.error, in order
    npm,           \* what the spawned installer did
    mainPromise,   \* the promise main returns
    watchPromise,  \* the promise of watch()'s .then callback
    eslintrc,      \* ./.eslintrc.json
    prettierrc,    \* ./.prettierrc.json
    imls,          \* the basenames glob finds for .idea/*.iml, sorted
    workspaceXml,  \* .idea/workspace.xml
    watcherTasks,  \* .idea/watcherTasks.xml
    watcher,       \* the Watch object (this.config, this.wsConfig)
    ret,           \* what the last Watch.writeFile() returned
    calls,         \* the Watch.writeFile() calls so far: config, document before and after
    arg,           \* argument of the pure function under check
    result         \* its result

vars == << pc, answers, configs, modules, trace, logs, npm, mainPromise,
           watchPromise, eslintrc, prettierrc, imls, workspaceXml,
           watcherTasks, watcher, ret, calls, arg, result >>

mainVars == << pc, answers, configs, modules, trace, npm, mainPromise,
               watchPromise, eslintrc, prettierrc >>
ideVars == << imls, workspaceXml, watcherTasks, watcher, ret, calls >>
fnVars == << arg, result >>

----------------------------------------------------------------------------
(* Bounds of the model *)

MaxIml == 2
MaxRuns == 2
MaxRules == 2
MaxExtends == 2

----------------------------------------------------------------------------
(* Generic helpers *)

Range(s) == { s[i] : i \in 1..Len(s) }

SeqsUpTo(S, n) == UNION { [1..k -> S] : k \in 0..n }

None == [present |-> FALSE]

\* one call of log.info / log.error: where it is made and what it names
Log(level, at, what) == [level |-> level, at |-> at, what |-> what]

Some(v) == [present |-> TRUE, val |-> v]

\* obj[key] = value on an ordered map: an existing key keeps its place
Put(obj, key, value) ==
    IF \E i \in 1..Len(obj) : obj[i].key = key
    THEN [i \in 1..Len(obj) |->
             IF obj[i].key = key THEN [key |-> key, value |-> value] ELSE obj[i]]
    ELSE Append(obj, [key |-> key, value |-> value])

\* delete obj[key]
Delete(obj, key) == SelectSeq(obj, LAMBDA e : e.key # key)

\* String.prototype.indexOf(needle) !== -1, needle a single fragment
Contains(str, needle) == \E i \in 1..Len(str) : str[i] = needle

\* the string begins with the fragment
StartsWith(str, needle) == Len(str) > 0 /\ str[1] = needle

----------------------------------------------------------------------------
(* lib/config-ops.js *)

RULE_SEVERITY_STRINGS == << "off", "warn", "error" >>

\* the table indexed as a one-based sequence
SeverityStringOneBased(n) ==
    IF n \in 1..3 THEN RULE_SEVERITY_STRINGS[n] ELSE RULE_SEVERITY_STRINGS[1]

\* RULE_SEVERITY_STRINGS[n] || RULE_SEVERITY_STRINGS[0], n an integer
SeverityString(n) ==
    IF n \in 0..2 THEN RULE_SEVERITY_STRINGS[n + 1] ELSE RULE_SEVERITY_STRINGS[1]

\* the same lookup for any number: [t |-> "number", n, int], where int = FALSE
\* stands for a number that is no integer (n + 0.5, NaN), which is no index of
\* the table, so the lookup is undefined and the default is taken
SeverityOf(num) ==
    IF num.int THEN SeverityString(num.n) ELSE RULE_SEVERITY_STRINGS[1]

\* one rule value: [t |-> "number", n, int], [t |-> "string", s],
\* [t |-> "array", items] or [t |-> "other", v]; typeof ruleConfig[0] of an
\* empty array is "undefined"
NormalizeRule(v) ==
    IF v.t = "number" THEN [t |-> "string", s |-> SeverityOf(v)]
    ELSE IF v.t = "array" /\ Len(v.items) > 0 /\ v.items[1].t = "number"
         THEN [v EXCEPT !.items[1] = [t |-> "string", s |-> SeverityOf(v.items[1])]]
         ELSE v

normalizeToStrings(config) ==
    IF config.rules.present
    THEN [config EXCEPT !.rules.val =
             [i \in 1..Len(config.rules.val) |->
                 [key |-> config.rules.val[i].key,
                  value |-> NormalizeRule(config.rules.val[i].value)]]]
    ELSE config

----------------------------------------------------------------------------
(* lib/index.js: genEslintConfig, processAnswers *)

DEFAULT_ECMA_VERSION == 2018

FEE_BASE == << "fee-base" >>
ESLINT_RECOMMENDED == << "eslint:", "recommended" >>
PLUGIN_VUE_ESSENTIAL == << "plugin:", "vue/essential" >>
PRETTIER == << "prettier" >>
REACT == << "react" >>
VUE == << "vue" >>

Purposes == { "syntax", "problems" }
ModuleTypes == { "esm", "commonjs", "none" }
Frameworks == { "react", "vue", "none" }
Envs == { "browser", "node" }

AnswerSets ==
    [ purpose : Purposes, moduleType : ModuleTypes, framework : Frameworks,
      env : SUBSET Envs, installedPrettier : BOOLEAN ]

\* extends kept as a sequence whatever its length
NormalizeExtendsKept(ext) == [kind |-> "array", val |-> ext]

\* the collapsed form of config.extends (lines 64-69)
NormalizeExtends(ext) ==
    IF Len(ext) = 0 THEN [kind |-> "absent", val |-> << >>]
    ELSE IF Len(ext) = 1 THEN [kind |-> "string", val |-> ext[1]]
    ELSE [kind |-> "array", val |-> ext]

\* lines 43-51: the framework's parser feature, plugin and preset
FrameworkPlugins(a) ==
    IF a.framework = "react" THEN Some(<< REACT >>)
    ELSE IF a.framework = "vue" THEN Some(<< VUE >>)
    ELSE None

FrameworkExtends(a, ext) ==
    IF a.framework = "vue" THEN Append(ext, PLUGIN_VUE_ESSENTIAL) ELSE ext

\* the recommended preset pushed instead of unshifted
PurposeExtendsPushed(a, ext) ==
    IF a.purpose = "problems" THEN Append(ext, ESLINT_RECOMMENDED) ELSE ext

\* lines 54-56
PurposeExtends(a, ext) ==
    IF a.purpose = "problems" THEN << ESLINT_RECOMMENDED >> \o ext ELSE ext

\* lines 58-62
PrettierPlugins(a, plugins) ==
    IF a.installedPrettier
    THEN Some((IF plugins.present THEN plugins.val ELSE << >>) \o << PRETTIER >>)
    ELSE plugins

PrettierExtends(a, ext) ==
    IF a.installedPrettier THEN Append(ext, PRETTIER) ELSE ext

PrettierRules(a, rules) ==
    IF a.installedPrettier
    THEN Put(rules, << "prettier/prettier" >>, [t |-> "string", s |-> "error"])
    ELSE rules

genEslintConfig(a) ==
    LET ext0 == << FEE_BASE >>
        env0 == { "es6" }
        env1 == IF a.moduleType = "commonjs" THEN env0 \cup { "commonjs" } ELSE env0
        env2 == env1 \cup a.env
        ext1 == FrameworkExtends(a, ext0)
        ext2 == PurposeExtends(a, ext1)
        ext3 == PrettierExtends(a, ext2)
        plugins == PrettierPlugins(a, FrameworkPlugins(a))
        config ==
            [ rules |-> Some(PrettierRules(a, << >>)),
              env |-> env2,
              parserOptions |->
                  [ ecmaVersion |-> DEFAULT_ECMA_VERSION,
                    sourceType |-> IF a.moduleType = "esm" THEN "module" ELSE "",
                    jsx |-> (a.framework = "react") ],
              globals |-> { << "Atomics", "readonly" >>,
                            << "SharedArrayBuffer", "readonly" >> },
              plugins |-> plugins,
              extends |-> NormalizeExtends(ext3) ]
    IN  normalizeToStrings(config)

PrettierConfig ==
    [ printWidth |-> 100, bracketSpacing |-> TRUE, semi |-> TRUE, tabWidth |-> 4,
      singleQuote |-> TRUE, jsxSingleQuote |-> FALSE, jsxBracketSameLine |-> FALSE,
      arrowParens |-> "avoid", endOfLine |-> "lf" ]

processAnswers(a) ==
    [ eslintConfig |-> genEslintConfig(a),
      prettierConfig |-> IF a.installedPrettier THEN Some(PrettierConfig) ELSE None ]

----------------------------------------------------------------------------
(* lib/index.js: getModulesList *)

externalModules == { PRETTIER }

\* lines 113-120
AddPlugin(mods, plugin) ==
    LET m1 == Put(mods, << "eslint-plugin-" >> \o plugin, "latest")
    IN  IF plugin \in externalModules THEN Put(m1, plugin, "latest") ELSE m1

RECURSIVE AddPlugins(_, _)
AddPlugins(mods, plugins) ==
    IF plugins = << >> THEN mods
    ELSE AddPlugins(AddPlugin(mods, Head(plugins)), Tail(plugins))

\* line 123: the entry names neither a built-in nor a plugin-provided preset
IsConfigPackage(extend) ==
    ~Contains(extend, "eslint:") /\ ~Contains(extend, "plugin:")

\* lines 122-127
AddExtend(mods, extend) ==
    IF IsConfigPackage(extend)
    THEN Put(mods, << "eslint-config-" >> \o extend, "latest")
    ELSE mods

RECURSIVE AddExtends(_, _)
AddExtends(mods, exts) ==
    IF exts = << >> THEN mods
    ELSE AddExtends(AddExtend(mods, Head(exts)), Tail(exts))

\* lines 130-134
BaseLinter(mods, installESLint) ==
    IF installESLint = FALSE THEN Delete(mods, << "eslint" >>)
    ELSE Put(mods, << "eslint" >>, "latest")

\* line 136: `${name}@${modules[name]}`
ModuleSpec(e) == e.key \o << "@", e.value >>

getModulesList(eslintConfig, installESLint) ==
    LET m0 == << >>
        m1 == IF eslintConfig.plugins.present
              THEN AddPlugins(m0, eslintConfig.plugins.val) ELSE m0
        m2 == IF eslintConfig.extends.kind = "array"
              THEN AddExtends(m1, eslintConfig.extends.val) ELSE m1
        m3 == BaseLinter(m2, installESLint)
    IN  [i \in 1..Len(m3) |-> ModuleSpec(m3[i])]

----------------------------------------------------------------------------
(* lib/ide/ws/Watcher: the XML documents *)

\* A document is the sequence of its top-level nodes.  Every node has a tag,
\* a name attribute ("" when it has none), a value (a sequence of strings:
\* the pattern of a scope, the content of a text node) and children.
Elem(tag, name, value, children) ==
    [tag |-> tag, name |-> name, value |-> value, children |-> children]

Text(chars) == Elem("#text", "", << chars >>, << >>)

IsText(n) == n.tag = "#text"

\* the cheerio selector [name="..."] matches elements only
HasName(n, name) == ~IsText(n) /\ n.name = name

\* $(selector).length
RECURSIVE CountNamed(_, _)
CountNamed(nodes, name) ==
    IF nodes = << >> THEN 0
    ELSE (IF HasName(Head(nodes), name) THEN 1 ELSE 0)
         + CountNamed(Head(nodes).children, name)
         + CountNamed(Tail(nodes), name)

\* $(selector).remove(): the matched elements go, with their subtrees
RECURSIVE RemoveNamed(_, _)
RemoveNamed(nodes, name) ==
    IF nodes = << >> THEN << >>
    ELSE IF HasName(Head(nodes), name) THEN RemoveNamed(Tail(nodes), name)
    ELSE << [Head(nodes) EXCEPT !.children = RemoveNamed(@, name)] >>
         \o RemoveNamed(Tail(nodes), name)

\* $('[name="..."]').append(fragment): every matched element gets the fragment
RECURSIVE AppendToNamed(_, _, _)
AppendToNamed(nodes, name, fragment) ==
    IF nodes = << >> THEN << >>
    ELSE << [Head(nodes) EXCEPT !.children =
                AppendToNamed(@, name, fragment)
                \o (IF HasName(Head(nodes), name) THEN fragment ELSE << >>)] >>
         \o AppendToNamed(Tail(nodes), name, fragment)

\* $('project').append(fragment)
RECURSIVE AppendToTag(_, _, _)
AppendToTag(nodes, tag, fragment) ==
    IF nodes = << >> THEN << >>
    ELSE << [Head(nodes) EXCEPT !.children =
                AppendToTag(@, tag, fragment)
                \o (IF Head(nodes).tag = tag THEN fragment ELSE << >>)] >>
         \o AppendToTag(Tail(nodes), tag, fragment)

\* Text that is adjacent in a string is one text node of the parsed tree.
RECURSIVE MergeText(_)
MergeText(nodes) ==
    IF Len(nodes) < 2 THEN nodes
    ELSE IF IsText(nodes[1]) /\ IsText(nodes[2])
         THEN MergeText(<< Text(nodes[1].value[1] \o nodes[2].value[1]) >>
                        \o SubSeq(nodes, 3, Len(nodes)))
         ELSE << nodes[1] >> \o MergeText(Tail(nodes))

\* cheerio.load(string): the tree of a string
RECURSIVE Parse(_)
Parse(nodes) ==
    LET merged == MergeText(nodes)
    IN  [i \in 1..Len(merged) |->
            [merged[i] EXCEPT !.children = Parse(@)]]

\* $.xml() written to the file: the file is held as the tree a parser reads
\* from it, so text nodes left side by side in the tree are one again
Xml(nodes) == Parse(nodes)

----------------------------------------------------------------------------
(* lib/ide/ws/Watcher: class Watch *)

ScopeKeys == << "js", "scss", "md", "vue" >>

SCOPENAME ==
    [ js |-> "prettier-js", scss |-> "prettier-scss",
      md |-> "prettier-md", vue |-> "prettier-vue" ]

\* SCOPENAME is an object literal: a key it does not own is looked up on
\* Object.prototype
ObjectPrototype ==
    [ constructor |-> "function Object() { [native code] }",
      toString |-> "function toString() { [native code] }" ]

\* SCOPENAME[key]; None is undefined
ScopeNameOf(key) ==
    IF key \in DOMAIN SCOPENAME THEN Some(SCOPENAME[key])
    ELSE IF key \in DOMAIN ObjectPrototype THEN Some(ObjectPrototype[key])
    ELSE None

\* normalizedConfig (lines 37-48): the typeObj left, and the keys reported
RECURSIVE normalizedConfig(_)
normalizedConfig(typeObj) ==
    IF typeObj = << >> THEN [typeObj |-> << >>, errors |-> << >>]
    ELSE LET e == Head(typeObj)
             rest == normalizedConfig(Tail(typeObj))
         IN  IF ~ScopeNameOf(e.key).present
             THEN [typeObj |-> rest.typeObj,
                   errors |-> << Log("error", "normalizedConfig", << << e.key >> >>) >>
                              \o rest.errors]
             ELSE [typeObj |->
                       << [e EXCEPT !.value.scopeName = ScopeNameOf(e.key)] >>
                       \o rest.typeObj,
                   errors |-> rest.errors]

\* any number of project files accepted
getWSConfigAnyProject(imlFiles, workspace) ==
    IF Len(imlFiles) >= 1 /\ workspace.present
    THEN Some([projectConfig |-> imlFiles[1], workspaceConfig |-> "workspace.xml"])
    ELSE None

\* getWSConfig (lines 169-182): glob.sync of .idea/*.iml and .idea/workspace.xml
getWSConfig(imlFiles, workspace) ==
    LET projectConfig == imlFiles
        workspaceConfig == IF workspace.present THEN << "workspace.xml" >> ELSE << >>
    IN  IF Len(projectConfig) = 1 /\ Len(workspaceConfig) = 1
        THEN Some([projectConfig |-> projectConfig[1],
                   workspaceConfig |-> workspaceConfig[1]])
        ELSE None

\* constructor (lines 30-35)
NewWatch(config, imlFiles, workspace) ==
    [ config |-> normalizedConfig(config).typeObj,
      wsConfig |-> getWSConfig(imlFiles, workspace) ]

\* genOptions (lines 189-210): the options of one TaskOptions that vary
genOptions(type, options) ==
    [ fileExtension |-> type,
      name |-> << "fee-prettier-", type >>,
      scopeName |-> options.scopeName.val ]

\* genWatchXml (lines 53-65)
genWatchXml(typeObj) ==
    [i \in 1..Len(typeObj) |-> genOptions(typeObj[i].key, typeObj[i].value)]

\* path.basename(projectConfig).match(/[^\.]+/)[0]
RECURSIVE TakeUntilDot(_)
TakeUntilDot(str) ==
    IF str = << >> \/ Head(str) = "." THEN << >>
    ELSE << Head(str) >> \o TakeUntilDot(Tail(str))

RECURSIVE ProjectName(_)
ProjectName(basename) ==
    IF basename # << >> /\ Head(basename) = "." THEN ProjectName(Tail(basename))
    ELSE TakeUntilDot(basename)

\* lines 148-152: while (tmpRule[tmpRule.length - 1] === '/') slice(0, -1)
RECURSIVE StripSlashes(_)
StripSlashes(tmpRule) ==
    IF tmpRule # << >> /\ tmpRule[Len(tmpRule)] = "/"
    THEN StripSlashes(SubSeq(tmpRule, 1, Len(tmpRule) - 1))
    ELSE tmpRule

\* lines 139-159: one rule of a non-empty rule list
FormatRule(rule, ruleDirection, projectName) ==
    LET normallizedRule == IF ~ruleDirection THEN << "!" >> ELSE << >>
    IN  IF rule # << >> /\ rule[Len(rule)] = "/"
        THEN normallizedRule \o << "file[" >> \o projectName \o << "]:" >>
             \o StripSlashes(rule) \o << "//*" >>
        ELSE normallizedRule \o << "file:" >> \o rule

\* lines 133-137
DefaultRules(projectName) ==
    << << "!", "file[" >> \o projectName \o << "]:", "node_modules", "//*" >>,
       << "!", "file[" >> \o projectName \o << "]:", ".git", "//*" >>,
       << "!", "file[" >> \o projectName \o << "]:", ".svn", "//*" >> >>

\* '&&' set for an exclude list only, the defaults joined as an include list is
JoinTagOfDirection(rule, ruleDirection) ==
    IF ~ruleDirection THEN "&&" ELSE "||"

\* lines 128-145: '&&' for the defaults and for an exclude list, '||' otherwise
JoinTag(rule, ruleDirection) ==
    IF Len(rule) = 0 THEN "&&"
    ELSE IF ~ruleDirection THEN "&&" ELSE "||"

FormatRuleArr(rule, ruleDirection, projectName) ==
    IF Len(rule) = 0 THEN DefaultRules(projectName)
    ELSE [i \in 1..Len(rule) |-> FormatRule(rule[i], ruleDirection, projectName)]

\* Array.prototype.join: the terms with the tag between them, kept apart
RECURSIVE Join(_, _)
Join(arr, tag) ==
    IF Len(arr) = 0 THEN << >>
    ELSE IF Len(arr) = 1 THEN << arr[1] >>
    ELSE << arr[1], << tag >> >> \o Join(Tail(arr), tag)

\* genScopes (lines 125-162): "\n\t<scope name=... pattern=... />\n"
genScopes(config, projectName) ==
    << Text(<< "\n", "\t" >>),
       Elem("scope", config.scopeName.val,
            Join(FormatRuleArr(config.rule, config.ruleDirection, projectName),
                 JoinTag(config.rule, config.ruleDirection)),
            << >>),
       Text(<< "\n" >>) >>

\* the keys of SCOPENAME whose elements cleanNamedScope removes (line 108)
CleanedKeys == ScopeKeys

\* the removal loop left out
RemoveScopesSkipped(nodes, keys) == nodes

RECURSIVE RemoveScopes(_, _)
RemoveScopes(nodes, keys) ==
    IF keys = << >> THEN nodes
    ELSE RemoveScopes(RemoveNamed(nodes, SCOPENAME[Head(keys)]), Tail(keys))

\* cleanNamedScope (lines 103-114)
cleanNamedScope(tree) ==
    LET withManager ==
            IF CountNamed(tree, "NamedScopeManager") = 0
            THEN AppendToTag(tree, "project",
                     << Elem("component", "NamedScopeManager", << >>, << >>) >>)
            ELSE tree
    IN  RemoveScopes(withManager, CleanedKeys)

\* lines 91-95: the scopes string of the run
RECURSIVE ScopesOf(_, _)
ScopesOf(typeObj, projectName) ==
    IF typeObj = << >> THEN << >>
    ELSE genScopes(Head(typeObj).value, projectName)
         \o ScopesOf(Tail(typeObj), projectName)

\* addRuletoWorkspace (lines 84-101): the document written back
addRuletoWorkspace(w, workspaceStr) ==
    LET tree == Parse(workspaceStr)
        name == ProjectName(w.wsConfig.val.projectConfig)
        scopes == ScopesOf(w.config, name)
        cleaned == cleanNamedScope(tree)
        appended == AppendToNamed(cleaned, "NamedScopeManager", Parse(scopes))
    IN  Xml(appended)

\* writeFile (lines 67-82): what it returns, writes and logs
writeFile(w, workspace) ==
    IF ~w.wsConfig.present
    THEN [ret |-> "undefined", written |-> FALSE,
          watcherTasks |-> None, workspace |-> workspace,
          logs |-> << Log("error", "writeFile", << >>) >>]
    ELSE [ret |-> "true", written |-> TRUE,
          watcherTasks |-> Some(genWatchXml(w.config)),
          workspace |-> Some(addRuletoWorkspace(w, workspace.val)),
          logs |-> << Log("info", "writeFile", << << "watcherTasks.xml" >> >>),
                      Log("info", "addRuletoWorkspace", << << "workspace.xml" >> >>) >>]

----------------------------------------------------------------------------
(* lib/npm-utils.js and lib/index.js: installation *)

SpawnErrors == { "none", "ENOENT", "EACCES" }

\* installSyncSaveDev (lines 25-36): spawn.sync returns, and only ENOENT is
\* looked at; nothing is thrown
installSyncSaveDev(packages, error) ==
    [ thrown |-> FALSE,
      installed |-> (error = "none"),
      logs |-> IF error # "none" /\ error = "ENOENT"
               THEN << Log("error", "installSyncSaveDev", packages) >>
               ELSE << >> ]

\* installModules (lines 144-147)
installModules(mods, error) ==
    LET r == installSyncSaveDev(mods, error)
    IN  [r EXCEPT !.logs = << Log("info", "installModules", mods) >> \o @]

----------------------------------------------------------------------------
(* lib/index.js: watch (lines 310-383) *)

\* watchMatch.trim() is not the empty string
TrimNonEmpty(str) == \E i \in 1..Len(str) : str[i] # " "

RECURSIVE TakeWord(_)
TakeWord(str) ==
    IF str = << >> \/ Head(str) = " " THEN << >>
    ELSE << Head(str) >> \o TakeWord(Tail(str))

RECURSIVE DropSpaces(_)
DropSpaces(str) ==
    IF str # << >> /\ Head(str) = " " THEN DropSpaces(Tail(str)) ELSE str

\* watchMatch.split(/\s+/)
RECURSIVE SplitSpaces(_)
SplitSpaces(str) ==
    LET word == TakeWord(str)
        rest == SubSeq(str, Len(word) + 1, Len(str))
    IN  IF rest = << >> THEN << word >>
        ELSE << word >> \o SplitSpaces(DropSpaces(rest))

\* lines 357-375: the Watch configuration of the answers
WatchConfig(watchList, watchMatch0) ==
    LET ruleDirection == ~StartsWith(watchMatch0, "!")
        watchMatch == IF ruleDirection THEN watchMatch0 ELSE Tail(watchMatch0)
        rule == IF TrimNonEmpty(watchMatch) THEN SplitSpaces(watchMatch) ELSE << >>
    IN  [i \in 1..Len(watchList) |->
            [key |-> watchList[i],
             value |-> [rule |-> rule, ruleDirection |-> ruleDirection,
                        scopeName |-> None]]]

----------------------------------------------------------------------------
(* The files of the project the tool is run in *)

NL == << "\n" >>

Project(children) == << Elem("project", "", << >>, children) >>

Component(name, children) == Elem("component", name, << >>, children)

Scope(name, pattern) == Elem("scope", name, pattern, << >>)

Option(name, value) == Elem("option", name, << << value >> >>, << >>)

OldPattern == << << "file:", "old.js" >> >>

\* workspace.xml as the IDE leaves it, or as an earlier run of the tool left it
DocEmpty == Project(<< >>)

DocPlain ==
    Project(<< Text(NL),
               Component("ChangeListManager", << Option("SHOW_DIALOG", "false") >>),
               Text(NL),
               Component("NamedScopeManager", << >>),
               Text(NL) >>)

DocScopes ==
    Project(<< Component("NamedScopeManager",
                         << Text(NL), Scope("prettier-js", OldPattern),
                            Text(NL), Scope("prettier-md", OldPattern),
                            Text(NL), Scope("Tests", OldPattern),
                            Text(NL) >>) >>)

DocOption ==
    Project(<< Component("PropertiesComponent",
                         << Option("prettier-js", "on"), Option("other", "x") >>),
               Component("NamedScopeManager",
                         << Scope("prettier-vue", OldPattern) >>) >>)

DocComponent ==
    Project(<< Component("prettier-scss", << Option("enabled", "true") >>),
               Text(NL) >>)

Docs == { DocEmpty, DocPlain, DocScopes, DocOption, DocComponent }

ImlPool ==
    << << "app", ".", "iml" >>, << "my", ".", "lib", ".", "iml" >>,
       << ".", "hidden", ".", "iml" >>, << "z", ".", "iml" >> >>

\* what glob.sync('.idea/*.iml') can return: up to MaxIml names
ImlChoices == { SubSeq(ImlPool, 1, k) : k \in 0..MaxIml }

----------------------------------------------------------------------------
(* lib/index.js: main (promptUser, lines 216-308) *)

WatchLists == { << "js", "scss", "md" >>, << "vue" >> }

MatchSamples ==
    { << >>,
      << "!", "lib", "/", " ", "dist.js" >>,
      << " ", "src", "/", "/", " ", " ", "index.js" >> }

\* what a writeFile() call does to the files, the log and the record of calls
Written(w, r) ==
    /\ ret' = r.ret
    /\ calls' = Append(calls, [config |-> w.config, ret |-> r.ret,
                               before |-> workspaceXml, after |-> r.workspace])
    /\ workspaceXml' = r.workspace
    /\ watcherTasks' = IF r.written THEN r.watcherTasks ELSE watcherTasks

IdleMain ==
    /\ pc = "idle" /\ answers = None /\ configs = None /\ modules = << >>
    /\ trace = << >> /\ npm = None
    /\ mainPromise = "pending" /\ watchPromise = "none"
    /\ eslintrc = None /\ prettierrc = None

IdleIde ==
    /\ watcherTasks = None /\ watcher = None /\ ret = "none" /\ calls = << >>

IdleFn == arg = None /\ result = None

Init ==
    /\ pc = "prompt" /\ answers = None /\ configs = None /\ modules = << >>
    /\ trace = << >> /\ logs = << >> /\ npm = None
    /\ mainPromise = "pending" /\ watchPromise = "none"
    /\ eslintrc = None /\ prettierrc = None
    /\ imls \in ImlChoices
    /\ workspaceXml \in { None, Some(DocScopes) }
    /\ IdleIde /\ IdleFn

\* lines 282-287 and 154-173: the first prompt is answered; the configuration
\* and the module list are computed and the installation is asked about
PromptAnswered(a) ==
    /\ pc = "prompt"
    /\ answers' = Some(a)
    /\ configs' = Some(processAnswers(a))
    /\ modules' = getModulesList(processAnswers(a).eslintConfig, TRUE)
    /\ trace' = trace \o << "answers", "config", "modules" >>
    /\ IF Len(modules') = 0
       THEN /\ pc' = "writeEslint"
            /\ logs' = logs
       ELSE /\ pc' = "askInstall"
            /\ logs' = logs \o << Log("info", "askInstallModules", modules') >>
    /\ UNCHANGED << npm, mainPromise, watchPromise, eslintrc, prettierrc >>
    /\ UNCHANGED ideVars /\ UNCHANGED fnVars

\* lines 174-178 and 288: installed or not, askInstallModules' promise is
\* fulfilled and the chain goes on to write the configuration
AfterInstallDeclinedSkipsWrites(executeInstallation) ==
    IF executeInstallation THEN "writeEslint" ELSE "startWatch"

AfterInstall(executeInstallation) == "writeEslint"

\* lines 174-178: the installation is confirmed or declined
InstallAnswered(executeInstallation, error) ==
    /\ pc = "askInstall"
    /\ IF executeInstallation
       THEN LET r == installModules(modules, error)
            IN  /\ npm' = Some([error |-> error, installed |-> r.installed])
                /\ logs' = logs \o r.logs
                /\ trace' = Append(trace, "install")
                /\ IF r.thrown
                   THEN pc' = "failed" /\ mainPromise' = "rejected"
                   ELSE pc' = AfterInstall(TRUE) /\ mainPromise' = mainPromise
       ELSE /\ error = "none"
            /\ trace' = Append(trace, "declined")
            /\ pc' = AfterInstall(FALSE)
            /\ UNCHANGED << npm, logs, mainPromise >>
    /\ UNCHANGED << answers, configs, modules, watchPromise, eslintrc, prettierrc >>
    /\ UNCHANGED ideVars /\ UNCHANGED fnVars

\* lines 288-293 and 188-210: writeFile('eslint', configs.eslintConfig, 'JSON')
WriteEslint ==
    /\ pc = "writeEslint"
    /\ eslintrc' = Some(configs.val.eslintConfig)
    /\ logs' = Append(logs, Log("info", "writeFile", << << ".eslintrc.json" >> >>))
    /\ trace' = Append(trace, "eslintrc")
    /\ pc' = "writePrettier"
    /\ UNCHANGED << answers, configs, modules, npm, mainPromise, watchPromise,
                    prettierrc >>
    /\ UNCHANGED ideVars /\ UNCHANGED fnVars

\* lines 294-301
WritePrettier ==
    /\ pc = "writePrettier"
    /\ IF configs.val.prettierConfig.present
       THEN /\ prettierrc' = Some(configs.val.prettierConfig.val)
            /\ logs' = Append(logs, Log("info", "writeFile", << << ".prettierrc.json" >> >>))
            /\ trace' = Append(trace, "prettierrc")
       ELSE UNCHANGED << prettierrc, logs, trace >>
    /\ pc' = "startWatch"
    /\ UNCHANGED << answers, configs, modules, npm, mainPromise, watchPromise,
                    eslintrc >>
    /\ UNCHANGED ideVars /\ UNCHANGED fnVars

\* lines 302-306 and 310-351: watch(cwd) is called and its prompt shown; the
\* resolve of the promise that wraps the call is never used
StartWatch ==
    /\ pc = "startWatch"
    /\ trace' = Append(trace, "watchPrompt")
    /\ watchPromise' = "pending"
    /\ pc' = "watchPrompt"
    /\ UNCHANGED << answers, configs, modules, logs, npm, mainPromise, eslintrc,
                    prettierrc >>
    /\ UNCHANGED ideVars /\ UNCHANGED fnVars

\* lines 352-381: the watch prompt is answered
WatchAnswered(wsWatch, watchList, watchMatch) ==
    /\ pc = "watchPrompt"
    /\ IF ~wsWatch
       THEN /\ watchList = << >> /\ watchMatch = << >>
            /\ watchPromise' = "fulfilled"
            /\ UNCHANGED << logs, trace, workspaceXml, watcherTasks, watcher, ret,
                            calls >>
       ELSE /\ watchList # << >>
            /\ LET config == WatchConfig(watchList, watchMatch)
                   w == NewWatch(config, imls, workspaceXml)
                   r == writeFile(w, workspaceXml)
               IN  /\ watcher' = Some(w)
                   /\ logs' = logs \o normalizedConfig(config).errors \o r.logs
                   /\ Written(w, r)
                   /\ trace' = IF r.written THEN Append(trace, "ideXml") ELSE trace
                   /\ watchPromise' = IF r.ret = "true" THEN "fulfilled" ELSE watchPromise
    /\ pc' = "done"
    /\ UNCHANGED << answers, configs, modules, npm, mainPromise, eslintrc,
                    prettierrc, imls >>
    /\ UNCHANGED fnVars

Next ==
    \/ \E a \in AnswerSets : PromptAnswered(a)
    \/ \E e \in BOOLEAN, error \in SpawnErrors : InstallAnswered(e, error)
    \/ WriteEslint
    \/ WritePrettier
    \/ StartWatch
    \/ \E wsWatch \in BOOLEAN, watchList \in WatchLists \cup { << >> },
          watchMatch \in MatchSamples :
          WatchAnswered(wsWatch, watchList, watchMatch)

Spec == Init /\ [][Next]_vars

----------------------------------------------------------------------------
(* Class Watch driven directly: new Watch(root, config) and writeFile(),     *)
(* run after run on the same project                                         *)

TokenPool == << "js", "md", "xyz", "constructor" >>

DefaultRule == [rule |-> << >>, ruleDirection |-> TRUE]

ExcludeRule == [rule |-> << << "lib", "/" >>, << "dist.js" >> >>, ruleDirection |-> FALSE]

TypeObjOf(T, r) ==
    LET keys == SelectSeq(TokenPool, LAMBDA t : t \in T)
    IN  [i \in 1..Len(keys) |->
            [key |-> keys[i],
             value |-> [rule |-> r.rule, ruleDirection |-> r.ruleDirection,
                        scopeName |-> None]]]

\* the configurations a caller passes: any of the tokens, in the pool's order,
\* with the default rule, and two of them with an exclude list as well
WatchInputs ==
    { TypeObjOf(T, DefaultRule) : T \in SUBSET Range(TokenPool) }
    \cup { TypeObjOf(T, ExcludeRule) : T \in { { "js" }, { "js", "md" } } }

InitWatch ==
    /\ IdleMain /\ IdleIde /\ result = None
    /\ logs = << >>
    /\ arg = None
    /\ imls \in ImlChoices
    /\ workspaceXml \in { None } \cup { Some(d) : d \in Docs }

\* const watch = new Watch(root, config); watch.writeFile()
\* (constructor, lines 30-35; writeFile, lines 67-82)
RunWatch(config) ==
    /\ Len(calls) < MaxRuns
    /\ LET w == NewWatch(config, imls, workspaceXml)
           r == writeFile(w, workspaceXml)
       IN  /\ arg' = Some(config)
           /\ watcher' = Some(w)
           /\ logs' = logs \o normalizedConfig(config).errors \o r.logs
           /\ Written(w, r)
    /\ UNCHANGED << imls, result >>
    /\ UNCHANGED mainVars

\* watch.writeFile() once more on the same object
WriteAgain ==
    /\ watcher.present
    /\ Len(calls) < MaxRuns
    /\ LET r == writeFile(watcher.val, workspaceXml)
       IN  /\ logs' = logs \o r.logs
           /\ Written(watcher.val, r)
    /\ UNCHANGED << imls, watcher >>
    /\ UNCHANGED mainVars /\ UNCHANGED fnVars

NextWatch ==
    \/ \E config \in WatchInputs : RunWatch(config)
    \/ WriteAgain

SpecWatch == InitWatch /\ [][NextWatch]_vars

----------------------------------------------------------------------------
(* getModulesList on the configurations a caller can pass *)

ExtendPool ==
    { FEE_BASE, ESLINT_RECOMMENDED, PLUGIN_VUE_ESSENTIAL, PRETTIER,
      << "team-", "eslint:", "base" >> }

PluginLists == { None, Some(<< VUE >>), Some(<< REACT, PRETTIER >>), Some(<< VUE, VUE >>) }

InitModules ==
    /\ IdleMain /\ IdleIde /\ logs = << >>
    /\ imls = << >> /\ workspaceXml = None
    /\ arg \in { Some([config |-> [plugins |-> p,
                                   extends |-> [kind |-> "array", val |-> e]],
                       installESLint |-> b]) :
                 p \in PluginLists, e \in SeqsUpTo(ExtendPool, MaxExtends),
                 b \in BOOLEAN }
    /\ result = None

ResolveModules ==
    /\ arg.present /\ ~result.present
    /\ result' = Some(getModulesList(arg.val.config, arg.val.installESLint))
    /\ UNCHANGED << arg, logs >>
    /\ UNCHANGED mainVars /\ UNCHANGED ideVars

SpecModules == InitModules /\ [][ResolveModules]_vars

----------------------------------------------------------------------------
(* genScopes on the watch rules a caller can pass *)

RulePool ==
    { << "src" >>, << "src", "/" >>, << "src", "/", "/" >>, << "/" >>,
      << "!", "a.js" >>, << >> }

InitScopes ==
    /\ IdleMain /\ IdleIde /\ logs = << >>
    /\ imls = << >> /\ workspaceXml = None
    /\ arg \in { Some([config |-> [rule |-> r, ruleDirection |-> d,
                                   scopeName |-> Some(SCOPENAME[k])],
                       projectName |-> n]) :
                 r \in SeqsUpTo(RulePool, MaxRules), d \in BOOLEAN,
                 k \in { "js", "md" }, n \in { << "app" >>, << "my" >> } }
    /\ result = None

GenerateScope ==
    /\ arg.present /\ ~result.present
    /\ result' = Some(genScopes(arg.val.config, arg.val.projectName))
    /\ UNCHANGED << arg, logs >>
    /\ UNCHANGED mainVars /\ UNCHANGED ideVars

SpecScopes == InitScopes /\ [][GenerateScope]_vars

----------------------------------------------------------------------------
(* normalizeToStrings on the rule values a configuration can hold *)

MaxSeverity == 3
MaxItems == 2

Num(n) == [t |-> "number", n |-> n, int |-> TRUE]
Str(s) == [t |-> "string", s |-> s]

\* the elements of a rule's array: severities and options
ItemPool ==
    { Num(0), Num(2), Num(MaxSeverity), Str("error"), [t |-> "other", v |-> "options"] }

RuleValues ==
    { Num(n) : n \in -1..MaxSeverity }
    \cup { [t |-> "number", n |-> 1, int |-> FALSE] }
    \cup { Str("warn"), Str("2"), [t |-> "other", v |-> "null"] }
    \cup { [t |-> "array", items |-> it] : it \in SeqsUpTo(ItemPool, MaxItems) }

RuleSets ==
    { << >> }
    \cup { << [key |-> "r1", value |-> v] >> : v \in RuleValues }
    \cup { << [key |-> "r1", value |-> v], [key |-> "r2", value |-> w] >> :
             v \in RuleValues, w \in { Num(2), Str("warn") } }

InitNormalize ==
    /\ IdleMain /\ IdleIde /\ logs = << >>
    /\ imls = << >> /\ workspaceXml = None
    /\ arg \in { Some([rules |-> None, env |-> { "es6" }]) }
               \cup { Some([rules |-> Some(r), env |-> { "es6" }]) : r \in RuleSets }
    /\ result = None

Normalize ==
    /\ arg.present /\ ~result.present
    /\ result' = Some(normalizeToStrings(arg.val))
    /\ UNCHANGED << arg, logs >>
    /\ UNCHANGED mainVars /\ UNCHANGED ideVars

SpecNormalize == InitNormalize /\ [][Normalize]_vars

----------------------------------------------------------------------------
(* What the claims are stated with *)

IsPrefix(s, t) == Len(s) <= Len(t) /\ SubSeq(t, 1, Len(s)) = s

Keys(obj) == { obj[i].key : i \in 1..Len(obj) }

PluginModule(plugin) == << "eslint-plugin-" >> \o plugin \o << "@", "latest" >>

ConfigModule(extend) == << "eslint-config-" >> \o extend \o << "@", "latest" >>

\* the entry begins with one of the two reserved prefixes
IsReserved(extend) == StartsWith(extend, "eslint:") \/ StartsWith(extend, "plugin:")

\* the extends references of a configuration, whatever form the field has
ExtendsRefs(config) ==
    IF config.extends.kind = "array" THEN Range(config.extends.val)
    ELSE IF config.extends.kind = "string" THEN { config.extends.val }
    ELSE { }

PluginsOf(config) ==
    IF config.plugins.present THEN Range(config.plugins.val) ELSE { }

\* discovery under .idea does not find exactly one workspace.xml and one *.iml
DiscoveryFails == Len(imls) # 1 \/ ~workspaceXml.present

\* the writeFile() calls that wrote
Wrote(i) == calls[i].ret = "true"

----------------------------------------------------------------------------
(* C1 *)

\* C1: for every answer set the module list of main holds the plugin package
\* of every plugin and the config package of every extends reference that is
\* not a reserved preset; in particular eslint-config-fee-base@latest, also
\* when extends was collapsed to a bare string.
C1_ModulesCoverConfig ==
    configs.present =>
        LET config == configs.val.eslintConfig
        IN  /\ \A p \in PluginsOf(config) : PluginModule(p) \in Range(modules)
            /\ \A e \in ExtendsRefs(config) :
                   ~IsReserved(e) => ConfigModule(e) \in Range(modules)
            /\ ConfigModule(FEE_BASE) \in Range(modules)

----------------------------------------------------------------------------
(* C2 *)

\* C2: whenever purpose = 'problems' the recommended preset is the first
\* extends entry, and whenever installedPrettier is true the 'prettier' preset
\* is the last one, so that with both the recommended preset precedes it.
C2_ExtendsOrder ==
    configs.present =>
        LET a == answers.val
            ext == configs.val.eslintConfig.extends
        IN  /\ a.purpose = "problems" =>
                   ext.kind = "array" /\ ext.val[1] = ESLINT_RECOMMENDED
            /\ a.installedPrettier =>
                   ext.kind = "array" /\ ext.val[Len(ext.val)] = PRETTIER
            /\ (a.purpose = "problems" /\ a.installedPrettier) =>
                   \E i, j \in 1..Len(ext.val) :
                       /\ i < j
                       /\ ext.val[i] = ESLINT_RECOMMENDED
                       /\ ext.val[j] = PRETTIER

C2_Witness ==
    /\ configs.present
    /\ answers.val.purpose = "problems" /\ answers.val.installedPrettier
    /\ answers.val.framework = "vue"
    /\ Len(configs.val.eslintConfig.extends.val) = 4

----------------------------------------------------------------------------
(* C3 *)

\* C3: running the merge twice in a row with the same file-type tokens is
\* idempotent: after the second run there is exactly one scope element per
\* token of the run, and the document equals the document after the first run.
\* (Stated for runs whose tokens are all of the fixed table.)
C3_MergeIdempotent ==
    \A i \in 1..(Len(calls) - 1) :
        ( /\ Wrote(i) /\ Wrote(i + 1)
          /\ calls[i + 1].config = calls[i].config
          /\ Keys(calls[i].config) \subseteq Range(ScopeKeys) )
        => /\ \A k \in Keys(calls[i + 1].config) :
                  CountNamed(calls[i + 1].after.val, SCOPENAME[k]) = 1
           /\ calls[i + 1].after = calls[i].after

----------------------------------------------------------------------------
(* C4 *)

\* C4 as claimed: a scope a previous run created for a token that is not in
\* the current run is still there, unchanged, after the current run.
C4_OtherScopesUntouched ==
    \A i \in 2..Len(calls) :
        (Wrote(i - 1) /\ Wrote(i)) =>
            \A k \in Keys(calls[i - 1].config) \cap Range(ScopeKeys) :
                k \notin Keys(calls[i].config) =>
                    CountNamed(calls[i].after.val, SCOPENAME[k])
                        = CountNamed(calls[i].before.val, SCOPENAME[k])

\* C4 as amended: every merge removes the elements named by the fixed table,
\* those of tokens outside the current run too: after a run no element named
\* for a token that is not in the run remains.
C4_OtherScopesRemoved ==
    \A i \in 1..Len(calls) :
        Wrote(i) =>
            \A k \in Range(ScopeKeys) :
                k \notin Keys(calls[i].config) =>
                    CountNamed(calls[i].after.val, SCOPENAME[k]) = 0

C4_Witness ==
    \E i \in 2..Len(calls) :
        /\ Wrote(i - 1) /\ Wrote(i)
        /\ "md" \in Keys(calls[i - 1].config)
        /\ "md" \notin Keys(calls[i].config)
        /\ CountNamed(calls[i].before.val, SCOPENAME["md"]) = 1
        /\ CountNamed(calls[i].after.val, SCOPENAME["md"]) = 0

----------------------------------------------------------------------------
(* C5 *)

\* C5: when discovery does not find exactly one workspace.xml and exactly one
\* *.iml, every writeFile() returns a falsy value and leaves workspace.xml as
\* it was, and watcherTasks.xml is not written.
C5_RefusedWithoutProject ==
    DiscoveryFails =>
        /\ ret \in { "none", "undefined" }
        /\ watcherTasks = None
        /\ \A i \in 1..Len(calls) :
               calls[i].ret = "undefined" /\ calls[i].after = calls[i].before

C5_Witness ==
    /\ Len(imls) = 2 /\ workspaceXml.present
    /\ Len(calls) = 2 /\ ret = "undefined"

----------------------------------------------------------------------------
(* C6 *)

\* C6: every token of the configuration that is not js, scss, md or vue is
\* rejected by the normalization: an error is logged for it, its entry is
\* dropped and no watcher task is produced for it; every token of the four
\* keeps its entry, with the scope name of the table.
C6_UnknownTokensRejected ==
    (arg.present /\ watcher.present) =>
        \A i \in 1..Len(arg.val) :
            LET k == arg.val[i].key
                config == watcher.val.config
            IN  IF k \in Range(ScopeKeys)
                THEN \E j \in 1..Len(config) :
                         /\ config[j].key = k
                         /\ config[j].value.scopeName = Some(SCOPENAME[k])
                ELSE /\ k \notin Keys(config)
                     /\ \E l \in 1..Len(logs) :
                            /\ logs[l].level = "error"
                            /\ logs[l].at = "normalizedConfig"
                            /\ logs[l].what = << << k >> >>
                     /\ watcherTasks.present =>
                            \A j \in 1..Len(watcherTasks.val) :
                                watcherTasks.val[j].fileExtension # k

----------------------------------------------------------------------------
(* C7 *)

\* C7: when the installer is spawned, ENOENT is logged with the packages and
\* the run goes on; any other spawn error makes the run fail.
C7_InstallerErrors ==
    npm.present =>
        /\ npm.val.error = "ENOENT" =>
               /\ pc # "failed" /\ mainPromise # "rejected"
               /\ \E l \in 1..Len(logs) :
                      /\ logs[l].level = "error"
                      /\ logs[l].at = "installSyncSaveDev"
                      /\ logs[l].what = modules
        /\ npm.val.error \notin { "none", "ENOENT" } =>
               pc = "failed" /\ mainPromise = "rejected"

----------------------------------------------------------------------------
(* C8 *)

StageOrder(installStage, prettier, ide) ==
    << "answers", "config", "modules", installStage, "eslintrc" >>
    \o (IF prettier THEN << "prettierrc" >> ELSE << >>)
    \o << "watchPrompt" >>
    \o (IF ide THEN << "ideXml" >> ELSE << >>)

\* C8: the stages of main happen in the fixed order; no configuration file is
\* written before the installation has been done or declined, the watch
\* prompt does not start before the configuration files are written, and
\* they are written whether or not the installation was confirmed.
C8_StagesInOrder ==
    /\ \E installStage \in { "install", "declined" }, ide \in BOOLEAN :
           IsPrefix(trace, StageOrder(installStage,
                        configs.present /\ configs.val.prettierConfig.present, ide))
    /\ (eslintrc.present \/ prettierrc.present) =>
           /\ pc \notin { "prompt", "askInstall" }
           /\ \E i \in 1..Len(trace) : trace[i] \in { "install", "declined" }
    /\ prettierrc.present => eslintrc.present
    /\ pc \in { "watchPrompt", "done" } =>
           /\ eslintrc = Some(configs.val.eslintConfig)
           /\ prettierrc = configs.val.prettierConfig
    /\ (watcherTasks.present \/ calls # << >>) => pc = "done"

C8_Witness ==
    /\ pc = "done"
    /\ trace = StageOrder("declined", TRUE, TRUE)
    /\ eslintrc.present /\ prettierrc.present /\ watcherTasks.present

----------------------------------------------------------------------------
(* C9 *)

\* C9: for a configuration whose extends is a sequence, getModulesList skips
\* an entry exactly when it begins with 'eslint:' or 'plugin:' and adds
\* 'eslint-config-<entry>@latest' for every other entry; the list has no
\* duplicates; plugins ['vue'] with extends ['plugin:vue/essential'] gives
\* exactly eslint-plugin-vue@latest, plus eslint@latest when requested.
C9_ReservedPrefixesSkipped ==
    result.present =>
        LET config == arg.val.config
            list == result.val
        IN  /\ \A e \in Range(config.extends.val) :
                   IsReserved(e) <=> ConfigModule(e) \notin Range(list)
            /\ \A i, j \in 1..Len(list) : i # j => list[i] # list[j]
            /\ ( config.plugins = Some(<< VUE >>)
                 /\ config.extends.val = << PLUGIN_VUE_ESSENTIAL >> )
               => list = << PluginModule(VUE) >>
                         \o (IF arg.val.installESLint
                             THEN << << "eslint", "@", "latest" >> >> ELSE << >>)

----------------------------------------------------------------------------
(* C10 *)

\* the term of one rule: a file match of the rule, or a directory match of
\* the rule without its trailing slashes
IsTermOf(term, rule, projectName) ==
    \/ term = << "file:" >> \o rule
    \/ \E k \in 0..Len(rule) :
           term = << "file[" >> \o projectName \o << "]:" >>
                  \o SubSeq(rule, 1, k) \o << "//*" >>

\* C10: an empty rule list gives a conjunction of exactly the three negated
\* default exclusions (node_modules, .git, .svn) and no disjunction, whatever
\* the direction; a non-empty include list gives a disjunction of un-negated
\* terms, one per rule in order; a non-empty exclude list gives a conjunction
\* of the same terms, each with '!' before it.
C10_ScopePattern ==
    result.present =>
        LET rule == arg.val.config.rule
            include == arg.val.config.ruleDirection
            name == arg.val.projectName
            pattern == result.val[2].value
            Default(dir) == << "!", "file[" >> \o name \o << "]:", dir, "//*" >>
        IN  IF rule = << >>
            THEN /\ pattern = << Default("node_modules"), << "&&" >>,
                                 Default(".git"), << "&&" >>, Default(".svn") >>
                 /\ \A i \in 1..Len(pattern) : pattern[i] # << "||" >>
            ELSE /\ Len(pattern) = 2 * Len(rule) - 1
                 /\ \A j \in 1..(Len(rule) - 1) :
                        pattern[2 * j] = << IF include THEN "||" ELSE "&&" >>
                 /\ \A j \in 1..Len(rule) :
                        LET term == pattern[2 * j - 1]
                        IN  IF include
                            THEN IsTermOf(term, rule[j], name)
                            ELSE /\ Head(term) = "!"
                                 /\ IsTermOf(Tail(term), rule[j], name)

C10_Witness ==
    /\ result.present
    /\ arg.val.config.rule = << >> /\ arg.val.config.ruleDirection
    /\ Len(result.val[2].value) = 5

----------------------------------------------------------------------------
(* C11 *)

\* the severity name the table gives for a number
NameOf(num) ==
    IF num.int /\ num.n = 0 THEN "off"
    ELSE IF num.int /\ num.n = 1 THEN "warn"
    ELSE IF num.int /\ num.n = 2 THEN "error"
    ELSE "off"

\* C11: normalizeToStrings replaces, for every rule, a numeric value n by the
\* n-th of off, warn, error when n is 0, 1 or 2 and by 'off' for every other
\* number; for a sequence whose first element is a number it replaces only
\* that first element by the same mapping and leaves the other elements as
\* they are; strings and every other rule entry (and the rest of the
\* configuration) are left unchanged.
C11_SeverityNames ==
    result.present =>
        LET in == arg.val
            out == result.val
        IN  /\ out.env = in.env
            /\ out.rules.present = in.rules.present
            /\ in.rules.present =>
                /\ Len(out.rules.val) = Len(in.rules.val)
                /\ \A i \in 1..Len(in.rules.val) :
                       LET v == in.rules.val[i].value
                           w == out.rules.val[i].value
                       IN  /\ out.rules.val[i].key = in.rules.val[i].key
                           /\ v.t = "number" => w = Str(NameOf(v))
                           /\ v.t = "array" =>
                               /\ w.t = "array" /\ Len(w.items) = Len(v.items)
                               /\ \A j \in 2..Len(v.items) : w.items[j] = v.items[j]
                               /\ Len(v.items) > 0 =>
                                     w.items[1] = IF v.items[1].t = "number"
                                                  THEN Str(NameOf(v.items[1]))
                                                  ELSE v.items[1]
                           /\ v.t \notin { "number", "array" } => w = v

\* a rule [2, 0] became ['error', 0], next to a rule whose number is outside
\* the table
C11_Witness ==
    /\ result.present /\ arg.val.rules.present
    /\ \E i \in 1..Len(arg.val.rules.val) :
           /\ arg.val.rules.val[i].value = [t |-> "array", items |-> << Num(2), Num(0) >>]
           /\ result.val.rules.val[i].value =
                  [t |-> "array", items |-> << Str("error"), Num(0) >>]

----------------------------------------------------------------------------
(* C12 *)

\* the extends entries the rules of genEslintConfig produce for an answer set
EntriesOf(a) ==
    (IF a.purpose = "problems" THEN << ESLINT_RECOMMENDED >> ELSE << >>)
    \o << FEE_BASE >>
    \o (IF a.framework = "vue" THEN << PLUGIN_VUE_ESSENTIAL >> ELSE << >>)
    \o (IF a.installedPrettier THEN << PRETTIER >> ELSE << >>)

\* C12: for every answer set the extends field returned by genEslintConfig is
\* a bare string exactly when the rules produced exactly one entry (and is that
\* entry), is the ordered sequence of all entries when they produced two or
\* more, and is absent when they produced none; the normalisation of an empty
\* list deletes the field.
C12_ExtendsForm ==
    /\ NormalizeExtends(<< >>).kind = "absent"
    /\ configs.present =>
           LET entries == EntriesOf(answers.val)
               ext == configs.val.eslintConfig.extends
           IN  /\ (ext.kind = "string") <=> (Len(entries) = 1)
               /\ Len(entries) = 1 => ext.val = entries[1]
               /\ Len(entries) >= 2 => ext.kind = "array" /\ ext.val = entries
               /\ Len(entries) = 0 => ext.kind = "absent"

\* one answer set has given the bare string and the files are being written
C12_Witness ==
    /\ configs.present /\ pc = "writeEslint"
    /\ answers.val.purpose = "syntax" /\ answers.val.framework = "react"
    /\ ~answers.val.installedPrettier
    /\ configs.val.eslintConfig.extends = [kind |-> "string", val |-> FEE_BASE]

----------------------------------------------------------------------------
(* C13 *)

TableNames == { SCOPENAME[ScopeKeys[i]] : i \in 1..Len(ScopeKeys) }

\* a scope element named by the fixed table
IsTableScope(n) == n.tag = "scope" /\ n.name \in TableNames

\* the elements of a document, each with its attributes and its parent
RECURSIVE ElementsUnder(_, _)
ElementsUnder(nodes, parent) ==
    IF nodes = << >> THEN { }
    ELSE LET n == Head(nodes)
         IN  (IF IsText(n) THEN { }
              ELSE { [tag |-> n.tag, name |-> n.name, value |-> n.value,
                      parent |-> parent] }
                   \cup ElementsUnder(n.children, << n.tag, n.name >>))
             \cup ElementsUnder(Tail(nodes), parent)

Elements(doc) == ElementsUnder(doc, << >>)

\* C13: a merge removes only scope elements named by the fixed table; every
\* other element of the document before the merge (an option or component
\* whose name is 'prettier-js', 'prettier-scss', 'prettier-md' or
\* 'prettier-vue' included, and every scope with another name) is in the
\* document after the merge with the same attributes and parent.
C13_OnlyTableScopesRemoved ==
    \A i \in 1..Len(calls) :
        Wrote(i) =>
            \A e \in Elements(calls[i].before.val) :
                ~IsTableScope(e) => e \in Elements(calls[i].after.val)

----------------------------------------------------------------------------
(* C14 *)

Settled == { "fulfilled", "rejected" }

\* C14: every run of main completes: when the watch stage has finished in any
\* of its outcomes (watching declined, the IDE files written, the write
\* refused) and no step of the run is left to take, the promise returned by
\* main has settled and so has the promise chain of the watch stage.
C14_MainSettles ==
    (pc = "done" /\ ~ENABLED Next) =>
        /\ mainPromise \in Settled
        /\ watchPromise \in Settled

====
